---- MODULE Spec2Model ----
(***************************************************************************)
(* Model of cleaned_inventory_system.py: the module-level dictionary       *)
(* stock_data, the functions add_item, remove_item, get_qty, load_data,    *)
(* save_data and check_low_items, and the inventory file they read and     *)
(* write.                                                                  *)
(*                                                                         *)
(* A Python dict is a sequence of <<key, value>> pairs with distinct keys, *)
(* in insertion order.  A Python argument is a tagged record, so that the  *)
(* isinstance checks are decided by the tag.  A JSON value read from the   *)
(* file is a tagged record as well, and int() is computed from the tag.    *)
(***************************************************************************)
EXTENDS Integers, Sequences, FiniteSets, TLC

VARIABLES stock_data, file, last

vars == <<stock_data, file, last>>

(* ------------------------------ bounds --------------------------------- *)

\* Largest quantity add_item is allowed to reach in the model.
MaxQty == 3

\* Largest integer passed as qty.
MaxArg == 2

(* --------------------------- Python values ----------------------------- *)

PyStr(s) == [type |-> "str", n |-> 0, s |-> s]

PyInt(n) == [type |-> "int", n |-> n, s |-> ""]

\* bool is a subclass of int: True is 1, False is 0.
PyBool(b) == [type |-> "bool", n |-> IF b THEN 1 ELSE 0, s |-> ""]

PyFloat(n) == [type |-> "float", n |-> n, s |-> ""]

PyNone == [type |-> "none", n |-> 0, s |-> ""]

\* isinstance(v, str)
IsStr(v) == v.type = "str"

\* isinstance(v, int): true of int and of its subclass bool.
IsInt(v) == v.type \in {"int", "bool"}

(* ------------------------------- dict ---------------------------------- *)

Keys(d) == {d[i][1] : i \in 1..Len(d)}

HasKey(d, k) == \E i \in 1..Len(d) : d[i][1] = k

\* d.get(k, default)
DictGet(d, k, default) ==
    IF HasKey(d, k)
    THEN d[CHOOSE i \in 1..Len(d) : d[i][1] = k][2]
    ELSE default

\* d[k] = v: an existing key keeps its position, a new key goes last.
DictSet(d, k, v) ==
    IF HasKey(d, k)
    THEN [i \in 1..Len(d) |-> IF d[i][1] = k THEN <<k, v>> ELSE d[i]]
    ELSE Append(d, <<k, v>>)

\* del d[k]
DictDel(d, k) == SelectSeq(d, LAMBDA p : p[1] # k)

\* The mapping a dict denotes: dict equality in Python ignores the order.
AsMap(d) == [k \in Keys(d) |-> DictGet(d, k, 0)]

(* ------------------------------ inputs --------------------------------- *)

Items == {"a", "b"}

\* sorted() on str keys: the position of each item name in code-point order.
ItemOrder == <<"a", "b">>

ItemArgs == {PyStr(i) : i \in Items} \cup {PyInt(1)}

QtyArgs == {PyInt(n) : n \in -1..MaxArg} \cup {PyBool(TRUE), PyFloat(1)}

ThresholdArgs == {PyInt(n) : n \in -1..1} \cup {PyFloat(1)}

(* ---------------------------- the ledger ------------------------------- *)

\* last is the record of the latest call: the function, its arguments, the
\* exception it raised ("ok" when none), what it returned, stock_data before
\* it (pre), and the call before it (prior) where two calls in a row are
\* the subject: an add_item after a successful add_item of the same item,
\* and a load_data after a successful save_data.
NoPrior == [op |-> "none", item |-> PyNone, qty |-> PyNone, pre |-> <<>>]

NoCall == [op |-> "init", item |-> PyNone, qty |-> PyNone, outcome |-> "ok",
           ret_int |-> 0, ret_list |-> <<>>, pre |-> <<>>, prior |-> NoPrior]

Prior(op, item) ==
    IF /\ last.outcome = "ok"
       /\ \/ op = "add" /\ last.op = "add" /\ last.item = item
          \/ op = "load" /\ last.op = "save"
    THEN [op |-> last.op, item |-> last.item, qty |-> last.qty, pre |-> last.pre]
    ELSE NoPrior

Call(op, item, qty, outcome, pre) ==
    [op |-> op, item |-> item, qty |-> qty, outcome |-> outcome,
     ret_int |-> 0, ret_list |-> <<>>, pre |-> pre, prior |-> Prior(op, item)]

\* The exception add_item raises on its arguments, "ok" when it raises none.
add_item_check(item, qty) ==
    IF ~IsStr(item) THEN "TypeError"
    ELSE IF ~IsInt(qty) THEN "TypeError"
    ELSE IF qty.n <= 0 THEN "ValueError"
    ELSE "ok"

\* add_item_effect storing qty in place of previous + qty.
add_item_effect_overwrite(stock, item, qty) == DictSet(stock, item.s, qty.n)

\* stock_data after a successful add_item.
add_item_effect(stock, item, qty) ==
    LET previous == DictGet(stock, item.s, 0)
    IN  DictSet(stock, item.s, previous + qty.n)

\* add_item_stock with the assignment ahead of the qty <= 0 check.
add_item_stock_early(stock, item, qty) ==
    IF IsStr(item) /\ IsInt(qty)
    THEN add_item_effect(stock, item, qty)
    ELSE stock

\* stock_data after add_item, which raises before it assigns.
add_item_stock(stock, item, qty) ==
    IF add_item_check(item, qty) = "ok"
    THEN add_item_effect(stock, item, qty)
    ELSE stock

add_item(item, qty) ==
    LET outcome == add_item_check(item, qty)
    IN  /\ outcome = "ok" => DictGet(stock_data, item.s, 0) + qty.n <= MaxQty
        /\ stock_data' = add_item_stock(stock_data, item, qty)
        /\ last' = Call("add", item, qty, outcome, stock_data)
        /\ UNCHANGED file

\* remove_item_check looking the item up ahead of the qty <= 0 check.
remove_item_check_lookup_first(stock, item, qty) ==
    IF ~IsStr(item) THEN "TypeError"
    ELSE IF ~IsInt(qty) THEN "TypeError"
    ELSE IF ~HasKey(stock, item.s) THEN "KeyError"
    ELSE IF qty.n <= 0 THEN "ValueError"
    ELSE "ok"

\* The exception remove_item raises, "ok" when it raises none.
remove_item_check(stock, item, qty) ==
    IF ~IsStr(item) THEN "TypeError"
    ELSE IF ~IsInt(qty) THEN "TypeError"
    ELSE IF qty.n <= 0 THEN "ValueError"
    ELSE IF ~HasKey(stock, item.s) THEN "KeyError"
    ELSE "ok"

\* remove_item_effect with > for >=: a quantity of 0 stays stored.
remove_item_effect_strict(stock, item, qty) ==
    LET current == DictGet(stock, item.s, 0)
    IN  IF qty.n > current
        THEN DictDel(stock, item.s)
        ELSE DictSet(stock, item.s, current - qty.n)

\* remove_item_effect without the deletion: the quantity goes below 0.
remove_item_effect_subtract(stock, item, qty) ==
    DictSet(stock, item.s, DictGet(stock, item.s, 0) - qty.n)

\* stock_data after a successful remove_item.
remove_item_effect(stock, item, qty) ==
    LET current == DictGet(stock, item.s, 0)
    IN  IF qty.n >= current
        THEN DictDel(stock, item.s)
        ELSE DictSet(stock, item.s, current - qty.n)

remove_item(item, qty) ==
    LET outcome == remove_item_check(stock_data, item, qty)
    IN  /\ stock_data' = IF outcome = "ok"
                         THEN remove_item_effect(stock_data, item, qty)
                         ELSE stock_data
        /\ last' = Call("remove", item, qty, outcome, stock_data)
        /\ UNCHANGED file

\* The value get_qty returns for a str item.
get_qty_value(stock, item) == DictGet(stock, item, 0)

get_qty(item) ==
    LET outcome == IF ~IsStr(item) THEN "TypeError" ELSE "ok"
    IN  /\ last' = [Call("get_qty", item, PyNone, outcome, stock_data)
                      EXCEPT !.ret_int = IF outcome = "ok"
                                         THEN get_qty_value(stock_data, item.s)
                                         ELSE 0]
        /\ UNCHANGED <<stock_data, file>>

check_low_items_check(threshold) ==
    IF ~IsInt(threshold) THEN "TypeError"
    ELSE IF threshold.n < 0 THEN "ValueError"
    ELSE "ok"

\* The list check_low_items returns: keys in dict order, quantity below n.
check_low_items_value(stock, n) ==
    LET low == SelectSeq(stock, LAMBDA p : p[2] < n)
    IN  [i \in 1..Len(low) |-> low[i][1]]

check_low_items(threshold) ==
    LET outcome == check_low_items_check(threshold)
    IN  /\ last' = [Call("check_low_items", PyNone, threshold, outcome, stock_data)
                      EXCEPT !.ret_list = IF outcome = "ok"
                                          THEN check_low_items_value(stock_data, threshold.n)
                                          ELSE <<>>]
        /\ UNCHANGED <<stock_data, file>>

(* ------------------------------- JSON --------------------------------- *)

\* The Python value json.load gives for a JSON value.  A float holds its
\* value in tenths (25 is 2.5); a string holds its characters.
JInt(n) == [kind |-> "int", n |-> n, chars |-> <<>>]

JFloat(tenths) == [kind |-> "float", n |-> tenths, chars |-> <<>>]

JStr(chars) == [kind |-> "str", n |-> 0, chars |-> chars]

JBool(b) == [kind |-> "bool", n |-> IF b THEN 1 ELSE 0, chars |-> <<>>]

\* null
JNull == [kind |-> "none", n |-> 0, chars |-> <<>>]

\* a nested array or object
JNested == [kind |-> "nested", n |-> 0, chars |-> <<>>]

\* Infinity, -Infinity or a literal beyond the float range such as 1e999
JInf == [kind |-> "inf", n |-> 0, chars |-> <<>>]

JNaN == [kind |-> "nan", n |-> 0, chars |-> <<>>]

Digits == <<"0", "1", "2", "3", "4", "5", "6", "7", "8", "9">>

IsDigit(c) == \E i \in 1..Len(Digits) : Digits[i] = c

DigitValue(c) == (CHOOSE i \in 1..Len(Digits) : Digits[i] = c) - 1

RECURSIVE StripLeft(_)
StripLeft(cs) ==
    IF cs # <<>> /\ Head(cs) = " " THEN StripLeft(Tail(cs)) ELSE cs

RECURSIVE StripRight(_)
StripRight(cs) ==
    IF cs # <<>> /\ cs[Len(cs)] = " "
    THEN StripRight(SubSeq(cs, 1, Len(cs) - 1))
    ELSE cs

RECURSIVE DigitsValue(_)
DigitsValue(cs) ==
    IF cs = <<>> THEN 0
    ELSE 10 * DigitsValue(SubSeq(cs, 1, Len(cs) - 1)) + DigitValue(cs[Len(cs)])

Result(exc, value) == [exc |-> exc, value |-> value]

\* int(s) for a str: surrounding blanks stripped, an optional sign, then
\* decimal digits and nothing else (the characters modelled are blanks,
\* signs, digits, letters and the point).
IntOfStr(chars) ==
    LET body   == StripRight(StripLeft(chars))
        signed == body # <<>> /\ Head(body) \in {"-", "+"}
        digits == IF signed THEN Tail(body) ELSE body
    IN  IF digits = <<>> \/ \E i \in 1..Len(digits) : ~IsDigit(digits[i])
        THEN Result("ValueError", 0)
        ELSE Result("ok", IF signed /\ Head(body) = "-"
                          THEN 0 - DigitsValue(digits)
                          ELSE DigitsValue(digits))

\* float to int truncates toward zero.
Truncate(tenths) == IF tenths >= 0 THEN tenths \div 10 ELSE 0 - ((0 - tenths) \div 10)

\* int(v) for a value json.load produced.
IntOf(v) ==
    CASE v.kind = "int"    -> Result("ok", v.n)
      [] v.kind = "bool"   -> Result("ok", v.n)
      [] v.kind = "float"  -> Result("ok", Truncate(v.n))
      [] v.kind = "str"    -> IntOfStr(v.chars)
      [] v.kind = "inf"    -> Result("OverflowError", 0)
      [] v.kind = "nan"    -> Result("ValueError", 0)
      [] v.kind = "none"   -> Result("TypeError", 0)
      [] v.kind = "nested" -> Result("TypeError", 0)

(* ------------------------------ the file ------------------------------- *)

\* The file at the path: missing; present but not readable (no permission,
\* a directory, a failing device); not JSON; JSON that is no object (an
\* array); or a JSON object, the sequence of its members as written.
Missing == [kind |-> "missing", pairs |-> <<>>]

Unreadable == [kind |-> "unreadable", pairs |-> <<>>]

NotJson == [kind |-> "notjson", pairs |-> <<>>]

Array == [kind |-> "array", pairs |-> <<>>]

Object(pairs) == [kind |-> "object", pairs |-> pairs]

\* json.load on an object: a dict of its members; a repeated name keeps its
\* first position and takes its last value.
RECURSIVE DictFromPairs(_)
DictFromPairs(pairs) ==
    IF pairs = <<>> THEN <<>>
    ELSE LET n == Len(pairs)
         IN  DictSet(DictFromPairs(SubSeq(pairs, 1, n - 1)), pairs[n][1], pairs[n][2])

\* {str(k): int(v) for k, v in data.items()}: the first value int() refuses
\* raises, and no dict is built.
RECURSIVE Comprehension(_)
Comprehension(data) ==
    IF data = <<>> THEN Result("ok", <<>>)
    ELSE LET head == IntOf(data[1][2])
             rest == Comprehension(Tail(data))
         IN  IF head.exc # "ok" THEN Result(head.exc, <<>>)
             ELSE IF rest.exc # "ok" THEN rest
             ELSE Result("ok", <<<<data[1][1], head.value>>>> \o rest.value)

\* What the body of load_data's try block does: the exception it raises, or
\* "ok" and the dict it assigns to stock_data.
load_data_try(f) ==
    CASE f.kind = "missing"    -> Result("FileNotFoundError", <<>>)
      [] f.kind = "unreadable" -> Result("PermissionError", <<>>)
      [] f.kind = "notjson"    -> Result("JSONDecodeError", <<>>)
      [] f.kind = "array"      -> Result("ValueError", <<>>)
      [] f.kind = "object"     -> Comprehension(DictFromPairs(f.pairs))

\* The exceptions load_data's except clauses catch.
load_data_caught == {"FileNotFoundError", "JSONDecodeError", "ValueError", "TypeError"}

\* load_data_stock updating the dict in place of replacing it.
RECURSIVE Merge(_, _)
Merge(stock, d) ==
    IF d = <<>> THEN stock
    ELSE Merge(DictSet(stock, d[1][1], d[1][2]), Tail(d))

load_data_stock_merge(stock, r) ==
    IF r.exc = "ok" THEN Merge(stock, r.value)
    ELSE IF r.exc \in {"FileNotFoundError", "JSONDecodeError", "ValueError", "TypeError"}
    THEN <<>>
    ELSE stock

\* stock_data after load_data: the dict read; {} after an exception that is
\* caught; untouched when the exception leaves load_data.
load_data_stock(stock, r) ==
    IF r.exc = "ok" THEN r.value
    ELSE IF r.exc \in load_data_caught THEN <<>>
    ELSE stock

load_data ==
    LET r == load_data_try(file)
        caught == r.exc \in load_data_caught
    IN  /\ stock_data' = load_data_stock(stock_data, r)
        /\ last' = Call("load", PyNone, PyNone,
                        IF r.exc = "ok" \/ caught THEN "ok" ELSE r.exc, stock_data)
        /\ UNCHANGED file

\* SortedPairs stopping one member short.
SortedPairs_short(d) ==
    LET present == SelectSeq(ItemOrder, LAMBDA k : HasKey(d, k))
    IN  [i \in 1..(Len(present) - 1) |-> <<present[i], DictGet(d, present[i], 0)>>]

\* sort_keys=True: the members ordered by key.
SortedPairs(d) ==
    LET present == SelectSeq(ItemOrder, LAMBDA k : HasKey(d, k))
    IN  [i \in 1..Len(present) |-> <<present[i], DictGet(d, present[i], 0)>>]

\* The object json.dump writes for stock_data.
save_data_text(stock) ==
    LET sorted == SortedPairs(stock)
    IN  Object([i \in 1..Len(sorted) |-> <<sorted[i][1], JInt(sorted[i][2])>>])

\* save_data writes the file.  A file that cannot be read may still be
\* written (it stays unreadable).
save_data_ok ==
    /\ file' = IF file.kind = "unreadable" THEN file ELSE save_data_text(stock_data)
    /\ last' = Call("save", PyNone, PyNone, "ok", stock_data)
    /\ UNCHANGED stock_data

\* open() fails (OSError): the file is as it was, the error is raised again.
save_data_open_fails ==
    /\ last' = Call("save", PyNone, PyNone, "OSError", stock_data)
    /\ UNCHANGED <<stock_data, file>>

\* The write fails after open() truncated the file (OSError): what is left
\* is not a complete JSON text.
save_data_write_fails ==
    /\ file.kind # "unreadable"
    /\ file' = NotJson
    /\ last' = Call("save", PyNone, PyNone, "OSError", stock_data)
    /\ UNCHANGED stock_data

save_data == save_data_ok \/ save_data_open_fails \/ save_data_write_fails

(* --------------------------- the environment --------------------------- *)

JsonValues == {JInt(-1), JInt(0), JFloat(15), JStr(<<" ", "2">>),
               JStr(<<"x">>), JNull, JInf}

HeadValues == {JInt(2), JNull, JInf}

TailValues == {JInt(1), JInf}

\* The files the environment can put at the path: the four that are no
\* object, and objects of no, one and two members (two members may repeat
\* a name).
ExternalFiles ==
    {Missing, Unreadable, NotJson, Array, Object(<<>>)}
    \cup {Object(<<<<k, v>>>>) : k \in Items, v \in JsonValues}
    \cup {Object(<<<<kl[1], v>>, <<kl[2], w>>>>) :
            kl \in {<<"a", "b">>, <<"b", "a">>, <<"a", "a">>},
            v \in HeadValues, w \in TailValues}

\* Something outside the program replaces the file.
write_file(f) ==
    /\ file # f
    /\ file' = f
    /\ last' = Call("external", PyNone, PyNone, "ok", stock_data)
    /\ UNCHANGED stock_data

Init ==
    /\ stock_data = <<>>
    /\ file = Missing
    /\ last = NoCall

Next ==
    \/ \E item \in ItemArgs, qty \in QtyArgs : add_item(item, qty)
    \/ \E item \in ItemArgs, qty \in QtyArgs : remove_item(item, qty)
    \/ \E item \in ItemArgs : get_qty(item)
    \/ \E threshold \in ThresholdArgs : check_low_items(threshold)
    \/ load_data
    \/ save_data
    \/ \E f \in ExternalFiles : write_file(f)

Spec == Init /\ [][Next]_vars

\* The ledger under add_item and remove_item alone, from the empty dict.
NextLedger ==
    \/ \E item \in ItemArgs, qty \in QtyArgs : add_item(item, qty)
    \/ \E item \in ItemArgs, qty \in QtyArgs : remove_item(item, qty)

SpecLedger == Init /\ [][NextLedger]_vars

(* ------------------------------ properties ----------------------------- *)

\* The item of the latest call, as a key.
item_key == last.item.s

\* Every other item is in stock exactly as it was before the latest call.
OthersUnchanged ==
    \A y \in Items \ {item_key} :
        /\ HasKey(stock_data, y) <=> HasKey(last.pre, y)
        /\ DictGet(stock_data, y, 0) = DictGet(last.pre, y, 0)

\* Invariant I1 of a dict: every stored quantity is a positive integer, and
\* an item is absent exactly when its quantity reads 0.
I1(stock) ==
    /\ \A i \in 1..Len(stock) : stock[i][2] \in Nat \ {0}
    /\ \A item \in Items : ~HasKey(stock, item) <=> get_qty_value(stock, item) = 0

\* C1: from the empty ledger, after every add_item and remove_item call
\* (raising or not), every value stored in stock_data is a strictly positive
\* integer and get_qty returns 0 for every item that is no key.
C1_PositiveUnderAddRemove ==
    /\ \A i \in 1..Len(stock_data) : stock_data[i][2] \in Nat \ {0}
    /\ \A item \in Items :
         ~HasKey(stock_data, item) => get_qty_value(stock_data, item) = 0

\* C1 witness: a remove_item that took all that was on hand, or more, and so
\* dropped the key, while another item stays in stock.
C1_Witness ==
    /\ last.op = "remove" /\ last.outcome = "ok"
    /\ last.qty.n > DictGet(last.pre, item_key, 0)
    /\ ~HasKey(stock_data, item_key)
    /\ stock_data # <<>>

\* C2: in every state add_item, remove_item and load_data reach, load_data
\* reading any object of integer-coercible values, I1 holds.
C2_I1UnderLoad == I1(stock_data)

\* C3: load_data never raises, and leaves stock_data empty whenever the file
\* is missing, unreadable, not JSON, no object, or has a value int() refuses.
C3_LoadNeverRaises ==
    last.op = "load" =>
        /\ last.outcome = "ok"
        /\ load_data_try(file).exc # "ok" => stock_data = <<>>

\* C4: a successful save_data followed at once by load_data leaves stock_data
\* equal, as a mapping, to what it was before the save.
C4_RoundTrip ==
    (last.op = "load" /\ last.prior.op = "save") =>
        AsMap(stock_data) = AsMap(last.prior.pre)

\* C4 witness: two items saved and loaded back, the file holding them in
\* key order and not in the order the dict had.
C4_Witness ==
    /\ last.op = "load" /\ last.outcome = "ok" /\ last.prior.op = "save"
    /\ Len(last.prior.pre) = 2
    /\ I1(last.prior.pre)
    /\ stock_data # last.prior.pre
    /\ AsMap(stock_data) = AsMap(last.prior.pre)

\* C5: remove_item of a str item that is in stock at quantity current, with
\* an integer qty > 0, raises nothing; with qty >= current the key is gone
\* and get_qty is 0, otherwise the quantity is current - qty; every other
\* item is as before.
C5_Remove ==
    (/\ last.op = "remove" /\ IsStr(last.item) /\ HasKey(last.pre, item_key)
     /\ IsInt(last.qty) /\ last.qty.n > 0) =>
        LET current == DictGet(last.pre, item_key, 0)
        IN  /\ last.outcome = "ok"
            /\ last.qty.n >= current =>
                 ~HasKey(stock_data, item_key) /\ get_qty_value(stock_data, item_key) = 0
            /\ last.qty.n < current =>
                 HasKey(stock_data, item_key) /\ DictGet(stock_data, item_key, 0) = current - last.qty.n
            /\ OthersUnchanged

\* C5 witness: more removed than was on hand, with another item in stock.
C5_Witness ==
    /\ last.op = "remove" /\ last.outcome = "ok"
    /\ HasKey(last.pre, item_key) /\ DictGet(last.pre, item_key, 0) > 0
    /\ last.qty.n > DictGet(last.pre, item_key, 0)
    /\ Len(last.pre) = 2

\* C6: a successful add_item sets the item's quantity to what it was (0 when
\* absent) plus qty and changes no other item; two in a row for one item
\* raise get_qty by the sum of the two, to exactly the sum from absent.
C6_AddAccumulates ==
    (last.op = "add" /\ last.outcome = "ok") =>
        /\ HasKey(stock_data, item_key)
        /\ DictGet(stock_data, item_key, 0) = get_qty_value(last.pre, item_key) + last.qty.n
        /\ OthersUnchanged
        /\ last.prior.op = "add" =>
             /\ get_qty_value(stock_data, item_key)
                  = get_qty_value(last.prior.pre, item_key) + last.prior.qty.n + last.qty.n
             /\ ~HasKey(last.prior.pre, item_key) =>
                  get_qty_value(stock_data, item_key) = last.prior.qty.n + last.qty.n

\* C6 witness: add_item(i, a) then add_item(i, b) from a state without i, a and b
\* different, another item in stock.
C6_Witness ==
    /\ last.op = "add" /\ last.outcome = "ok" /\ last.prior.op = "add"
    /\ ~HasKey(last.prior.pre, item_key)
    /\ last.prior.qty.n # last.qty.n
    /\ get_qty_value(stock_data, item_key) = last.prior.qty.n + last.qty.n
    /\ Len(stock_data) = 2

\* C7: add_item and remove_item check in a fixed order: TypeError when item
\* is no str or qty no integer; else ValueError when qty <= 0; else, for
\* remove_item alone, KeyError when the item is absent; else no exception.
C7_CheckOrder ==
    last.op \in {"add", "remove"} =>
        last.outcome =
            IF ~IsStr(last.item) \/ ~IsInt(last.qty) THEN "TypeError"
            ELSE IF last.qty.n <= 0 THEN "ValueError"
            ELSE IF last.op = "remove" /\ ~HasKey(last.pre, item_key) THEN "KeyError"
            ELSE "ok"

\* C7 witness: remove_item of an absent item with qty <= 0 raises ValueError.
C7_Witness ==
    /\ last.op = "remove" /\ IsStr(last.item) /\ ~HasKey(last.pre, item_key)
    /\ IsInt(last.qty) /\ last.qty.n <= 0
    /\ last.outcome = "ValueError"
    /\ last.pre # <<>>

\* C8: in every state add_item, remove_item and load_data reach,
\* check_low_items(0) returns the empty list.
C8_NothingBelowZero ==
    (last.op = "check_low_items" /\ last.qty = PyInt(0)) =>
        last.outcome = "ok" /\ last.ret_list = <<>>

\* The index of the last member of the file named k.
LastMember(k) ==
    CHOOSE i \in 1..Len(file.pairs) :
        /\ file.pairs[i][1] = k
        /\ \A j \in (i + 1)..Len(file.pairs) : file.pairs[j][1] # k

\* C9: when the file is an object whose values int() all accepts, load_data
\* leaves in stock_data exactly the file's keys, each with the int() of its
\* value, and nothing of what was there before.
C9_LoadReplaces ==
    (/\ last.op = "load" /\ file.kind = "object"
     /\ \A i \in 1..Len(file.pairs) : IntOf(file.pairs[i][2]).exc = "ok") =>
        /\ last.outcome = "ok"
        /\ Keys(stock_data) = {file.pairs[i][1] : i \in 1..Len(file.pairs)}
        /\ \A k \in Keys(stock_data) :
             DictGet(stock_data, k, 0) = IntOf(file.pairs[LastMember(k)][2]).value

\* C9 witness: a load of a one-member object over a stock that held another
\* item, which is gone.
C9_Witness ==
    /\ last.op = "load" /\ last.outcome = "ok" /\ file.kind = "object"
    /\ Len(file.pairs) = 1 /\ IntOf(file.pairs[1][2]).exc = "ok"
    /\ \E y \in Keys(last.pre) : y # file.pairs[1][1] /\ DictGet(last.pre, y, 0) > 0
    /\ Keys(stock_data) = {file.pairs[1][1]}

\* C10: an add_item, remove_item, get_qty or check_low_items call that raises
\* leaves stock_data as it was, and get_qty, check_low_items and save_data
\* leave it as it was whether they raise or not.
C10_Frame ==
    /\ (last.op \in {"add", "remove", "get_qty", "check_low_items"}
        /\ last.outcome # "ok") => stock_data = last.pre
    /\ last.op \in {"get_qty", "check_low_items", "save"} => stock_data = last.pre

\* C10 witness: an add_item that raised ValueError over a stock of two items.
C10_Witness ==
    /\ last.op = "add" /\ last.outcome = "ValueError"
    /\ Len(last.pre) = 2 /\ stock_data = last.pre

====
